---- MODULE Spec2Model ----
(***************************************************************************)
(* Model of homework.py: the poll / validate / translate / notify loop of  *)
(* main() and the functions it calls.                                      *)
(*                                                                         *)
(* Python values are modelled as records.  Texts are sequences of strings, *)
(* so that formatting a value into a text is concatenation.  The Russian   *)
(* literals of the source are rendered in ASCII; the comment next to each  *)
(* gives the line of the literal.                                          *)
(***************************************************************************)
EXTENDS Naturals, Sequences, FiniteSets, TLC

VARIABLES
    env,            \* PRACTICUM_TOKEN, TELEGRAM_TOKEN, TELEGRAM_CHAT_ID (lines 16-18)
    pc,             \* position of main()
    timestamp,      \* main()'s local timestamp: the poll cursor (lines 115, 122)
    response,       \* main()'s local response (line 118)
    homeworks,      \* main()'s local homeworks (line 119)
    message,        \* the text handed to send_message (lines 121, 124)
    error,          \* the exception bound by "except Exception as error"
    reply,          \* what requests.get produced inside get_api_answer (line 59)
    propagating,    \* an exception is leaving main() through the finally clause
    exit_status,    \* whether the process has exited, and its exit status
    from_date,      \* history: params['from_date'] of this cycle's request
    cursor_before,  \* history: timestamp when this cycle's request was made
    checked,        \* history: check_response ran in this cycle
    parsed,         \* history: the work items handed to parse_status in this cycle
    sends,          \* history: the bot.send_message calls of this cycle
    slept,          \* history: seconds slept since the last request
    requested       \* history: a poll request has been made since startup

vars == <<env, pc, timestamp, response, homeworks, message, error, reply, propagating,
          exit_status,
          from_date, cursor_before, checked, parsed, sends, slept, requested>>

(***************************************************************************)
(* Bounds                                                                  *)
(***************************************************************************)
\* int(time.time()) and the integer current_date values range over 0..MaxTime
MaxTime == 1
\* the longest homeworks list the remote service returns
MaxHomeworks == 2

(***************************************************************************)
(* Program constants                                                       *)
(***************************************************************************)
RETRY_PERIOD == 600

\* HTTPStatus.OK
HTTP_OK == 200

ENDPOINT == "https://practicum.yandex.ru/api/user_api/homework_statuses/"

\* line 26: "Работа проверена: ревьюеру всё понравилось. Ура!"
\* line 27: "Работа взята на проверку ревьюером."
\* line 28: "Работа проверена: у ревьюера есть замечания."
HOMEWORK_VERDICTS ==
    [approved  |-> "Work checked: the reviewer liked everything. Hooray!",
     reviewing |-> "Work taken for checking by the reviewer.",
     rejected  |-> "Work checked: the reviewer has remarks."]

(***************************************************************************)
(* Python values                                                           *)
(***************************************************************************)
None == "None"

PyInt(n) == [type |-> "int", val |-> n]
PyStr == [type |-> "str", val |-> 0]
PyNone == [type |-> "NoneType", val |-> 0]

\* the values int(time.time()) can take; the wall clock may be set back
\* between two readings, so successive readings are independent
Times == 0..MaxTime

\* what os.getenv can give: unset, set to the empty string, set
EnvValues == {None, "", "secret"}

Truthy(v) == v \notin {None, ""}

\* a raised exception: its class and its argument
Exc(type, msg) == [type |-> type, msg |-> msg]
NoError == Exc(None, <<>>)

\* str(error): KeyError shows the repr of its argument, the others the argument
ErrorText(e) ==
    IF e.type = "KeyError" THEN <<"'">> \o e.msg \o <<"'">> ELSE e.msg

(***************************************************************************)
(* What the remote service can return                                      *)
(***************************************************************************)
Names == {"lab1", "lab2"}
Statuses == {"approved", "reviewing", "rejected", "unknown"}

\* an element of homeworks that is a dict; a missing key is hasX = FALSE
Item(n, s) ==
    [isDict |-> TRUE, hasName |-> n # None, homework_name |-> n,
     hasStatus |-> s # None, status |-> s]

\* an element of homeworks that is not a dict (a string, a number, null)
NotADictItem ==
    [isDict |-> FALSE, hasName |-> FALSE, homework_name |-> None,
     hasStatus |-> FALSE, status |-> None]

\* one item of each known status, one of an unknown status, one without each
\* key, one without both, and one that is not a dict
WorkItems ==
    {Item("lab1", "approved"), Item("lab1", "reviewing"), Item("lab2", "rejected"),
     Item("lab2", "unknown"), Item(None, "approved"), Item("lab1", None),
     Item(None, None), NotADictItem}

HomeworkLists == UNION { [1..n -> WorkItems] : n \in 0..MaxHomeworks }

CurrentDates == { PyInt(n) : n \in Times } \cup {PyStr}

\* a decoded body that is not a dict (a list, a string, null)
NotADict ==
    [isDict |-> FALSE, hasHomeworks |-> FALSE, homeworksIsList |-> FALSE,
     homeworks |-> <<>>, hasCurrentDate |-> FALSE, current_date |-> PyNone]

NoResponse == NotADict

DictPayloads ==
    { [isDict |-> TRUE, hasHomeworks |-> TRUE, homeworksIsList |-> TRUE,
       homeworks |-> h, hasCurrentDate |-> d # PyNone, current_date |-> d] :
        h \in HomeworkLists, d \in CurrentDates \cup {PyNone} }
    \cup
    \* homeworks present but not a list
    { [isDict |-> TRUE, hasHomeworks |-> TRUE, homeworksIsList |-> FALSE,
       homeworks |-> <<>>, hasCurrentDate |-> d # PyNone, current_date |-> d] :
        d \in CurrentDates \cup {PyNone} }
    \cup
    \* homeworks absent
    { [isDict |-> TRUE, hasHomeworks |-> FALSE, homeworksIsList |-> FALSE,
       homeworks |-> <<>>, hasCurrentDate |-> d # PyNone, current_date |-> d] :
        d \in CurrentDates \cup {PyNone} }

Payloads == DictPayloads \cup {NotADict}

\* what requests.get can produce: it raises (no response arrives), or it
\* returns a response with a status code and a body that json() decodes or not
NoReply ==
    [arrived |-> FALSE, status_code |-> 0, decodable |-> FALSE, body |-> NoResponse]

Replies ==
    {NoReply}
    \cup { [arrived |-> TRUE, status_code |-> c, decodable |-> FALSE, body |-> NoResponse] :
             c \in {HTTP_OK, 500} }
    \cup { [arrived |-> TRUE, status_code |-> HTTP_OK, decodable |-> TRUE, body |-> p] :
             p \in Payloads }
    \cup { [arrived |-> TRUE, status_code |-> 500, decodable |-> TRUE, body |-> NotADict] }

\* bot.send_message returns, or raises telegram.TelegramError
Deliveries == {"ok", "TelegramError"}

(***************************************************************************)
(* The functions of homework.py                                            *)
(***************************************************************************)
Returned(v) == [ok |-> TRUE, value |-> v, error |-> NoError]
Raised(v, e) == [ok |-> FALSE, value |-> v, error |-> e]

NotExited == [exited |-> FALSE, code |-> 0]

\* lines 111-113: sys.exit with a string argument prints it and exits with 1
SysExit(text) == [exited |-> TRUE, code |-> 1]

check_tokens_any(e) ==
    Truthy(e.TELEGRAM_TOKEN) \/ Truthy(e.PRACTICUM_TOKEN) \/ Truthy(e.TELEGRAM_CHAT_ID)

\* line 34: all([TELEGRAM_TOKEN, PRACTICUM_TOKEN, TELEGRAM_CHAT_ID])
check_tokens(e) ==
    Truthy(e.TELEGRAM_TOKEN) /\ Truthy(e.PRACTICUM_TOKEN) /\ Truthy(e.TELEGRAM_CHAT_ID)

send_message_reraise(text, delivery) ==
    [raised |-> delivery # "ok",
     attempt |-> [text |-> text, delivered |-> delivery = "ok",
                  log |-> IF delivery = "ok" THEN "debug" ELSE None]]

\* lines 39-45: one bot.send_message call; telegram.TelegramError is caught and
\* logged.  raised: whether an exception leaves send_message; attempt: the call
\* made, and the level of the line logged after it (line 43 or line 45)
send_message(text, delivery) ==
    [raised |-> FALSE,
     attempt |-> [text |-> text, delivered |-> delivery = "ok",
                  log |-> IF delivery = "ok" THEN "debug" ELSE "error"]]

\* line 50 overwrites the parameter with the time of the call
RequestParam(ts, now) == now

\* lines 59-67, the try block: requests.get raises, or line 61 raises
\* InvalidResponseCode with status, reason and text, or json() raises
\* line 62: "Неверный код ответа. Статус: {status_code} Причина: {reason} Текст: {text}"
TryRequest(rep) ==
    IF ~rep.arrived
    THEN Raised(NoResponse, Exc("RequestException", <<"no response">>))
    ELSE IF rep.status_code # HTTP_OK
    THEN Raised(NoResponse, Exc("InvalidResponseCode",
                                <<"Invalid response code. Status: ",
                                  ToString(rep.status_code)>>))
    ELSE IF ~rep.decodable
    THEN Raised(NoResponse, Exc("JSONDecodeError", <<"body is not JSON">>))
    ELSE Returned(rep.body)

get_api_answer_no_status_check(ts, now, rep) ==
    LET param == RequestParam(ts, now)
        failure == Exc("ConnectionError",
                       <<"Connection error: URL = ", ENDPOINT,
                         "; params = from_date: ", ToString(param)>>)
    IN  [from_date |-> param,
         result |-> IF rep.arrived /\ rep.decodable THEN Returned(rep.body)
                    ELSE Raised(NoResponse, failure)]

\* lines 48-75.  "except Exception" (line 68) catches whatever the try block
\* raised, InvalidResponseCode included, and raises ConnectionError instead.
\* line 71: "Ошибка подключения: URL = {url}, headers = {headers}; params = {params}"
get_api_answer(ts, now, rep) ==
    LET param == RequestParam(ts, now)
        failure == Exc("ConnectionError",
                       <<"Connection error: URL = ", ENDPOINT,
                         "; params = from_date: ", ToString(param)>>)
    IN  [from_date |-> param,
         result |-> IF TryRequest(rep).ok THEN TryRequest(rep)
                    ELSE Raised(NoResponse, failure)]

check_response_declared_order(r) ==
    IF ~r.isDict
    THEN Raised(<<>>, Exc("TypeError", <<"API response is not a dict">>))
    ELSE IF ~r.hasHomeworks
    THEN Raised(<<>>, Exc("KeyError", <<"Key homeworks is missing in the API response">>))
    ELSE IF ~r.homeworksIsList
    THEN Raised(<<>>, Exc("TypeError", <<"homeworks is not a list">>))
    ELSE IF ~r.hasCurrentDate
    THEN Raised(<<>>, Exc("KeyError", <<"Key current_date is missing in the API response">>))
    ELSE Returned(r.homeworks)

\* lines 81-90
\* line 82: "Ответ API не является словарем"
\* line 84: "Ключ homeworks отсутствует в ответе API"
\* line 86: "Ключ current_date отсутствует в ответе API"
\* line 89: "homeworks не является списком"
check_response(r) ==
    IF ~r.isDict
    THEN Raised(<<>>, Exc("TypeError", <<"API response is not a dict">>))
    ELSE IF ~r.hasHomeworks
    THEN Raised(<<>>, Exc("KeyError", <<"Key homeworks is missing in the API response">>))
    ELSE IF ~r.hasCurrentDate
    THEN Raised(<<>>, Exc("KeyError", <<"Key current_date is missing in the API response">>))
    ELSE IF ~r.homeworksIsList
    THEN Raised(<<>>, Exc("TypeError", <<"homeworks is not a list">>))
    ELSE Returned(r.homeworks)

parse_status_no_status_check(homework) ==
    IF ~homework.isDict
    THEN Raised(<<>>, Exc("AttributeError", <<"object has no attribute 'get'">>))
    ELSE IF ~homework.hasName
    THEN Raised(<<>>, Exc("KeyError", <<"The API response has no key homework_name">>))
    ELSE IF ~homework.hasStatus
    THEN Raised(<<>>, Exc("KeyError", <<"The API response has no key status">>))
    ELSE Returned(<<"Review status changed for work \"", homework.homework_name, "\" ",
                    IF homework.status \in DOMAIN HOMEWORK_VERDICTS
                    THEN HOMEWORK_VERDICTS[homework.status] ELSE None>>)

\* lines 95-104; homework.get raises AttributeError when the item is no dict
\* line 98: "В ответе API отсутствует ключ homework_name"
\* line 100: "В ответе API отсутствует ключ status"
\* line 102: "Неизвестный статус работы: {homework_status}"
\* line 104: "Изменился статус проверки работы \"{homework_name}\" {verdict}"
parse_status(homework) ==
    IF ~homework.isDict
    THEN Raised(<<>>, Exc("AttributeError", <<"object has no attribute 'get'">>))
    ELSE IF ~homework.hasName
    THEN Raised(<<>>, Exc("KeyError", <<"The API response has no key homework_name">>))
    ELSE IF ~homework.hasStatus
    THEN Raised(<<>>, Exc("KeyError", <<"The API response has no key status">>))
    ELSE IF homework.status \notin DOMAIN HOMEWORK_VERDICTS
    THEN Raised(<<>>, Exc("ValueError", <<"Unknown work status: ", homework.status>>))
    ELSE Returned(<<"Review status changed for work \"", homework.homework_name, "\" ",
                    HOMEWORK_VERDICTS[homework.status]>>)

FailureReport_without_error(e) == <<"Program failure: ">>

\* line 124: "Сбой в работе программы: {error}"
FailureReport(e) == <<"Program failure: ">> \o ErrorText(e)

LastHomework(h) == h[Len(h)]

\* line 121: homeworks[0]
FirstHomework(h) == h[1]

GetCurrentDate_default(r, default) == default

\* line 122: response.get('current_date', timestamp)
GetCurrentDate(r, default) ==
    IF r.hasCurrentDate THEN r.current_date ELSE default

(***************************************************************************)
(* main()                                                                  *)
(***************************************************************************)
Init ==
    /\ env \in [PRACTICUM_TOKEN : EnvValues, TELEGRAM_TOKEN : EnvValues,
                TELEGRAM_CHAT_ID : EnvValues]
    /\ pc = "startup"
    /\ timestamp = PyNone
    /\ response = NoResponse
    /\ homeworks = <<>>
    /\ message = <<>>
    /\ error = NoError
    /\ reply = NoReply
    /\ propagating = FALSE
    /\ exit_status = NotExited
    /\ from_date = PyNone
    /\ cursor_before = PyNone
    /\ checked = FALSE
    /\ parsed = <<>>
    /\ sends = <<>>
    /\ slept = 0
    /\ requested = FALSE

\* lines 109-115: sys.exit when a token is missing (the process ends: no action
\* is enabled in "halted"), else the bot is made and the cursor is set
Startup ==
    /\ pc = "startup"
    /\ IF ~check_tokens(env)
       THEN /\ pc' = "halted"
            /\ exit_status' = SysExit("Stopping the program: a required environment variable is missing")
            /\ UNCHANGED timestamp
       ELSE /\ pc' = "request"
            /\ \E now \in Times : timestamp' = PyInt(now)
            /\ UNCHANGED exit_status
    /\ UNCHANGED <<env, requested, reply, response, homeworks, message, error, propagating,
                   from_date, cursor_before, checked, parsed, sends, slept>>

\* line 118: response = get_api_answer(timestamp)
GetApiAnswer ==
    /\ pc = "request"
    /\ reply' \in Replies
    /\ \E now \in Times :
         LET r == get_api_answer(timestamp, now, reply')
         IN  /\ from_date' = PyInt(r.from_date)
             /\ IF r.result.ok
                THEN /\ response' = r.result.value
                     /\ pc' = "check"
                     /\ UNCHANGED error
                ELSE /\ error' = r.result.error
                     /\ pc' = "except"
                     /\ UNCHANGED response
    /\ cursor_before' = timestamp
    /\ slept' = 0
    /\ requested' = TRUE
    /\ UNCHANGED <<env, exit_status, timestamp, homeworks, message, propagating,
                   checked, parsed, sends>>

\* lines 119-120: homeworks = check_response(response); if homeworks:
CheckResponse ==
    /\ pc = "check"
    /\ checked' = TRUE
    /\ LET r == check_response(response)
       IN  IF r.ok
           THEN /\ homeworks' = r.value
                /\ pc' = IF r.value # <<>> THEN "parse" ELSE "advance"
                /\ UNCHANGED error
           ELSE /\ error' = r.error
                /\ pc' = "except"
                /\ UNCHANGED homeworks
    /\ UNCHANGED <<env, requested, exit_status, reply, timestamp, response, message, propagating,
                   from_date, cursor_before, parsed, sends, slept>>

\* line 121, the argument: parse_status(homeworks[0])
ParseStatus ==
    /\ pc = "parse"
    /\ LET item == FirstHomework(homeworks)
           r == parse_status(item)
       IN  /\ parsed' = Append(parsed, item)
           /\ IF r.ok
              THEN /\ message' = r.value
                   /\ pc' = "send"
                   /\ UNCHANGED error
              ELSE /\ error' = r.error
                   /\ pc' = "except"
                   /\ UNCHANGED message
    /\ UNCHANGED <<env, requested, exit_status, reply, timestamp, response, homeworks, propagating,
                   from_date, cursor_before, checked, sends, slept>>

\* line 121, the call: send_message(bot, ...)
SendVerdict ==
    /\ pc = "send"
    /\ \E delivery \in Deliveries :
         LET r == send_message(message, delivery)
         IN  /\ sends' = Append(sends, r.attempt)
             /\ IF r.raised
                THEN /\ error' = Exc("TelegramError", <<"delivery failed">>)
                     /\ pc' = "except"
                ELSE /\ pc' = "advance"
                     /\ UNCHANGED error
    /\ UNCHANGED <<env, requested, exit_status, reply, timestamp, response, homeworks, message, propagating,
                   from_date, cursor_before, checked, parsed, slept>>

\* line 122: timestamp = response.get('current_date', timestamp)
AdvanceCursor ==
    /\ pc = "advance"
    /\ timestamp' = GetCurrentDate(response, timestamp)
    /\ pc' = "sleep"
    /\ UNCHANGED <<env, requested, exit_status, reply, response, homeworks, message, error, propagating,
                   from_date, cursor_before, checked, parsed, sends, slept>>

HandleError_without_sleep ==
    /\ pc = "except"
    /\ message' = FailureReport(error)
    /\ \E delivery \in Deliveries :
         LET r == send_message(FailureReport(error), delivery)
         IN  /\ sends' = Append(sends, r.attempt)
             /\ propagating' = r.raised
    /\ error' = NoError
    /\ pc' = "request"
    /\ UNCHANGED <<env, requested, exit_status, reply, timestamp, response, homeworks,
                   from_date, cursor_before, checked, parsed, slept>>

\* lines 123-126: the handler formats the failure report and sends it; an
\* exception raised inside the handler leaves main() after the finally clause
HandleError ==
    /\ pc = "except"
    /\ message' = FailureReport(error)
    /\ \E delivery \in Deliveries :
         LET r == send_message(FailureReport(error), delivery)
         IN  /\ sends' = Append(sends, r.attempt)
             /\ propagating' = r.raised
    /\ error' = NoError
    /\ pc' = "sleep"
    /\ UNCHANGED <<env, requested, exit_status, reply, timestamp, response, homeworks,
                   from_date, cursor_before, checked, parsed, slept>>

\* lines 127-128 and the back edge of "while True".  The locals of the cycle
\* that ended are dead here (each is assigned before it is read again), and the
\* history of the cycle is cleared.
Sleep ==
    /\ pc = "sleep"
    /\ slept' = slept + RETRY_PERIOD
    /\ pc' = IF propagating THEN "terminated" ELSE "request"
    /\ response' = NoResponse
    /\ reply' = NoReply
    /\ homeworks' = <<>>
    /\ message' = <<>>
    /\ from_date' = PyNone
    /\ cursor_before' = PyNone
    /\ checked' = FALSE
    /\ parsed' = <<>>
    /\ sends' = <<>>
    /\ UNCHANGED <<env, requested, exit_status, timestamp, error, propagating>>

Next ==
    \/ Startup
    \/ GetApiAnswer
    \/ CheckResponse
    \/ ParseStatus
    \/ SendVerdict
    \/ AdvanceCursor
    \/ HandleError
    \/ Sleep

Spec == Init /\ [][Next]_vars

\* main() is one thread: whenever it has a next step, it takes it
LiveSpec == Spec /\ WF_vars(Next)

(***************************************************************************)
(* Properties                                                              *)
(***************************************************************************)
Running == pc \notin {"startup", "halted"}

CycleDone == pc = "sleep"

\* the response of this cycle passed check_response
Validated == checked /\ check_response(response).ok

IsVerdictText(t) == Len(t) = 4 /\ t[1] = "Review status changed for work \""

IsFailureText(t) == Len(t) >= 1 /\ t[1] = "Program failure: "

\* C1: once the loop runs, main() never ends: every cycle, whatever the remote
\* call, validation, translation and delivery did (a failed delivery of a
\* failure report included), reaches the sleep, and after the sleep the next
\* request is made.
C1_LoopRunsForever ==
    /\ [](pc # "terminated")
    /\ []<>(pc = "halted" \/ CycleDone)
    /\ []<>(pc = "halted" \/ pc = "request")

C1_Witness ==
    /\ CycleDone
    /\ Len(sends) = 1
    /\ IsFailureText(sends[1].text)
    /\ ~sends[1].delivered

\* C2: a cycle whose response passed validation ends with the cursor equal to
\* the response's current_date, whether or not translation and delivery
\* succeeded.
C2_CursorAdvancesAfterValidation ==
    (CycleDone /\ Validated) => timestamp = response.current_date

\* C3: the from_date of every request is the cursor main() holds when the
\* request is made.
C3_RequestUsesCursor ==
    from_date # PyNone => from_date = cursor_before

\* the failure of this cycle, when one of the three steps failed
RequestFailed == from_date # PyNone /\ ~checked /\ pc \in {"except", "sleep"}
ValidationFailed == checked /\ ~check_response(response).ok
TranslationFailed == parsed # <<>> /\ ~parse_status(parsed[1]).ok

InjectedFailure ==
    IF RequestFailed
    THEN Exc("ConnectionError",
             <<"Connection error: URL = ", ENDPOINT,
               "; params = from_date: ", ToString(from_date.val)>>)
    ELSE IF ValidationFailed THEN check_response(response).error
    ELSE IF TranslationFailed THEN parse_status(parsed[1]).error
    ELSE NoError

\* C4: a cycle in which the request, the validation or the translation failed
\* ends with exactly one send attempted, whose text is the failure report with
\* the error's description, and the loop goes on to the next iteration.
C4_OneFailureReportPerFailure ==
    (CycleDone /\ InjectedFailure # NoError) =>
        /\ Len(sends) = 1
        /\ sends[1].text = <<"Program failure: ">> \o ErrorText(InjectedFailure)
        /\ ~propagating

C4_Witness ==
    /\ CycleDone
    /\ TranslationFailed
    /\ Len(sends) = 1
    /\ sends[1].text = <<"Program failure: ", "Unknown work status: ", "unknown">>

\* the five shape invariants of a payload
IsMapping(r) == r.isDict
HasHomeworksSequence(r) == r.hasHomeworks /\ r.homeworksIsList
HasIntegerCurrentDate(r) == r.hasCurrentDate /\ r.current_date.type = "int"
WellShaped(r) == IsMapping(r) /\ HasHomeworksSequence(r) /\ HasIntegerCurrentDate(r)

\* C5: a cycle whose payload violates one of the five shape invariants ends
\* with the cursor it started with.
C5_MalformedPayloadKeepsCursor ==
    (CycleDone /\ checked /\ ~WellShaped(response)) => timestamp = cursor_before

\* C6: check_response returns the homeworks exactly when the payload satisfies
\* all five shape invariants, and fails otherwise.
C6_ValidatorRejectsEveryViolation ==
    checked => (check_response(response).ok <=> WellShaped(response))

\* C7: a cycle with a valid response whose homeworks is empty attempts no send
\* and ends with the cursor equal to the response's current_date.
C7_EmptyHomeworks ==
    (CycleDone /\ Validated /\ response.homeworks = <<>>) =>
        /\ sends = <<>>
        /\ timestamp = response.current_date

C7_Witness ==
    /\ CycleDone
    /\ Validated
    /\ response.homeworks = <<>>
    /\ timestamp # cursor_before

\* the text a cycle sends for a first work item h
TextFor(h) ==
    IF parse_status(h).ok THEN parse_status(h).value
    ELSE <<"Program failure: ">> \o ErrorText(parse_status(h).error)

\* C8: with several work items only the first is translated and notified: the
\* items handed to parse_status, the one text sent and the cursor are those
\* the first item and current_date determine, and no other item is sent.
C8_OnlyFirstItem ==
    (Validated /\ Len(response.homeworks) > 1) =>
        /\ Len(parsed) <= 1
        /\ Len(sends) <= 1
        /\ \A i \in 1..Len(parsed) : parsed[i] = response.homeworks[1]
        /\ \A i \in 1..Len(sends) : sends[i].text = TextFor(response.homeworks[1])
        /\ CycleDone =>
            /\ Len(parsed) = 1
            /\ Len(sends) = 1
            /\ timestamp = IF parse_status(response.homeworks[1]).ok
                           THEN response.current_date ELSE cursor_before

C8_Witness ==
    /\ CycleDone
    /\ Validated
    /\ Len(response.homeworks) > 1
    /\ response.homeworks[2] # response.homeworks[1]
    /\ parse_status(response.homeworks[2]).ok
    /\ Len(sends) = 1
    /\ sends[1].delivered

Present(v) == v # None

AllPresent == Present(env.PRACTICUM_TOKEN) /\ Present(env.TELEGRAM_TOKEN)
              /\ Present(env.TELEGRAM_CHAT_ID)

\* C9: with a configuration value absent, main() halts at startup before any
\* request or send; the loop runs only when all three are present.
C9_StartupCheck ==
    /\ (pc # "startup" /\ ~AllPresent) =>
          /\ pc = "halted"
          /\ exit_status.exited /\ exit_status.code # 0
          /\ timestamp = PyNone
          /\ from_date = PyNone
          /\ sends = <<>>
    /\ Running => (AllPresent /\ ~exit_status.exited)

C9_Witness ==
    /\ pc = "halted"
    /\ exit_status.code = 1
    /\ env.PRACTICUM_TOKEN = None
    /\ Present(env.TELEGRAM_TOKEN)
    /\ Present(env.TELEGRAM_CHAT_ID)

KnownStatus(h) == h.hasStatus /\ h.status \in {"approved", "reviewing", "rejected"}

Translatable(h) == h.isDict /\ h.hasName /\ KnownStatus(h)

\* C10: parse_status returns, for an item with homework_name and a known
\* status, a message with the item's name and the verdict of that status; for
\* any other item it fails and no message results.
C10_ParseStatus ==
    \A i \in 1..Len(parsed) :
        LET h == parsed[i]
        IN  IF Translatable(h)
            THEN /\ pc \in {"send", "advance", "sleep"}
                 /\ IsVerdictText(message)
                 /\ message[2] = h.homework_name
                 /\ message[4] = HOMEWORK_VERDICTS[h.status]
            ELSE /\ pc \in {"except", "sleep"}
                 /\ ~IsVerdictText(message)
                 /\ \A j \in 1..Len(sends) : ~IsVerdictText(sends[j].text)

C10_Witness ==
    /\ pc = "send"
    /\ parsed = <<Item("lab2", "rejected")>>
    /\ message[4] = "Work checked: the reviewer has remarks."

\* C11: send_message never raises: a failed send is logged as an error and
\* swallowed where it happens, the text is not sent again in the cycle, and
\* main() goes on as after a delivered send.
C11_SendFailureSwallowed ==
    \A i \in 1..Len(sends) :
        ~sends[i].delivered =>
            /\ sends[i].log = "error"
            /\ \A j \in 1..Len(sends) : j # i => sends[j].text # sends[i].text
            /\ Len(sends) = i
            /\ error = NoError
            /\ ~propagating
            /\ pc \in (IF IsVerdictText(sends[i].text)
                      THEN {"advance", "sleep"} ELSE {"sleep"})

C11_Witness ==
    /\ pc = "advance"
    /\ Len(sends) = 1
    /\ IsVerdictText(sends[1].text)
    /\ ~sends[1].delivered
    /\ sends[1].log = "error"

\* the remote call of this cycle was made and failed
RemoteCallMade == from_date # PyNone
NonSuccessStatus == RemoteCallMade /\ reply.arrived /\ reply.status_code # HTTP_OK
TransportFailure == RemoteCallMade /\ ~reply.arrived
RemoteCallFailed ==
    RemoteCallMade /\ (~reply.arrived \/ reply.status_code # HTTP_OK \/ ~reply.decodable)

\* C12: the failure get_api_answer raises to main() is InvalidResponseCode for
\* a response with a non-success status code and ConnectionError for a
\* transport-level failure, and neither kind is reported as the other.
C12_FailureClassifiedByCause ==
    (pc = "except" /\ RemoteCallFailed) =>
        /\ NonSuccessStatus => error.type = "InvalidResponseCode"
        /\ TransportFailure => error.type = "ConnectionError"
        /\ error.type = "ConnectionError" => ~NonSuccessStatus
        /\ error.type = "InvalidResponseCode" => ~TransportFailure

\* C13: in every cycle at most one send is attempted, so never a verdict and a
\* failure report together and never either of them twice.
C13_AtMostOneSendPerCycle ==
    /\ Len(sends) <= 1
    /\ ~\E i, j \in 1..Len(sends) :
          /\ i # j
          /\ \/ IsVerdictText(sends[i].text) /\ IsFailureText(sends[j].text)
             \/ sends[i].text = sends[j].text

C13_Witness ==
    /\ CycleDone
    /\ Len(sends) = 1
    /\ IsVerdictText(sends[1].text)
    /\ sends[1].delivered
    /\ parsed # <<>>

\* C14: the cursor main() holds is an integer in every state of the loop.
C14_CursorIsInteger ==
    Running => timestamp.type = "int"

\* C15: every iteration, however it ended, goes to the sleep; the sleep lasts
\* RETRY_PERIOD and leads to the next request; and a request that is not the
\* first is made after exactly one sleep since the request before it.
C15_OneSleepBetweenRequests ==
    /\ [][(pc \in {"advance", "except"}) => (pc' = "sleep")]_vars
    /\ [][(pc = "sleep") => (pc' = "request" /\ slept' = slept + RETRY_PERIOD)]_vars
    /\ [][(pc' = "request") => (pc \in {"startup", "sleep"})]_vars
    /\ [](pc = "request" => (IF requested THEN slept = RETRY_PERIOD ELSE slept = 0))

C15_Witness ==
    /\ pc = "request"
    /\ requested
    /\ slept = RETRY_PERIOD
    /\ timestamp.type = "int"

\* C16: a cycle whose remote call failed keeps the cursor it started with, and
\* neither check_response nor parse_status runs in it.
C16_FailedCallKeepsCursor ==
    (RemoteCallFailed /\ pc # "request") =>
        /\ pc \in {"except", "sleep"}
        /\ timestamp = cursor_before
        /\ ~checked
        /\ parsed = <<>>

C16_Witness ==
    /\ CycleDone
    /\ NonSuccessStatus
    /\ Len(sends) = 1
    /\ timestamp = cursor_before

\* the violations of a payload, by field
HomeworksViolation(r) == r.isDict /\ ~(r.hasHomeworks /\ r.homeworksIsList)
CurrentDateViolation(r) ==
    r.isDict /\ ~(r.hasCurrentDate /\ r.current_date.type = "int")

IsHomeworksError(e) ==
    e \in {Exc("KeyError", <<"Key homeworks is missing in the API response">>),
           Exc("TypeError", <<"homeworks is not a list">>)}

\* check_response has just failed in this cycle
ValidationJustFailed == pc = "except" /\ checked /\ parsed = <<>>

\* C17 as stated: a payload that violates a homeworks invariant and a
\* current_date invariant is reported with the homeworks violation.
C17_HomeworksReportedFirst ==
    (ValidationJustFailed /\ HomeworksViolation(response)
       /\ CurrentDateViolation(response)) => IsHomeworksError(error)

\* C17 as amended: check_response fails on the first violated check in the
\* order: response is a dict, homeworks is present, current_date is present,
\* homeworks is a list.
C17_CheckOrder ==
    (checked /\ pc \in {"except", "parse", "advance"} /\ parsed = <<>>) =>
        IF ~response.isDict
        THEN pc = "except" /\ error = Exc("TypeError", <<"API response is not a dict">>)
        ELSE IF ~response.hasHomeworks
        THEN pc = "except"
             /\ error = Exc("KeyError", <<"Key homeworks is missing in the API response">>)
        ELSE IF ~response.hasCurrentDate
        THEN pc = "except"
             /\ error = Exc("KeyError", <<"Key current_date is missing in the API response">>)
        ELSE IF ~response.homeworksIsList
        THEN pc = "except" /\ error = Exc("TypeError", <<"homeworks is not a list">>)
        ELSE pc # "except" /\ homeworks = response.homeworks

C17_Witness ==
    /\ ValidationJustFailed
    /\ response.hasHomeworks
    /\ ~response.homeworksIsList
    /\ ~response.hasCurrentDate
    /\ error = Exc("KeyError", <<"Key current_date is missing in the API response">>)

\* a verdict whose delivery failed in this cycle
VerdictUndelivered ==
    \E i \in 1..Len(sends) : IsVerdictText(sends[i].text) /\ ~sends[i].delivered

\* C18: after a failed delivery of a verdict the cycle ends as a successful
\* one: no failure report is attempted and the cursor becomes current_date;
\* and a verdict is only ever sent for the first item of the response received
\* in the same cycle, so nothing undelivered is sent in a later cycle.
C18_UndeliveredVerdictDropped ==
    /\ VerdictUndelivered =>
          /\ Len(sends) = 1
          /\ pc \in {"advance", "sleep"}
          /\ CycleDone => (~propagating /\ timestamp = response.current_date)
    /\ \A i \in 1..Len(sends) :
          IsVerdictText(sends[i].text) =>
              /\ Validated
              /\ response.homeworks # <<>>
              /\ parsed = <<response.homeworks[1]>>
              /\ Translatable(parsed[1])
              /\ sends[i].text[2] = parsed[1].homework_name
              /\ sends[i].text[4] = HOMEWORK_VERDICTS[parsed[1].status]
    /\ pc = "request" => (sends = <<>> /\ message = <<>> /\ homeworks = <<>>)

C18_Witness ==
    /\ CycleDone
    /\ VerdictUndelivered
    /\ timestamp = response.current_date
    /\ timestamp # cursor_before


====
